---- MODULE Spec2Model ----
(***************************************************************************)
(* The generate -> analyse -> fix refinement loop of src/main.py and its   *)
(* per-round scoring, as a state machine.                                  *)
(*                                                                         *)
(* Python's 0-based indices are kept for i and j; a list or a per-prompt   *)
(* file family is a sequence, element j being at position j + 1.           *)
(* A float is modelled as an exact fraction <<numerator, denominator>>.    *)
(* A text carries the identity "gen" of the generator call that produced   *)
(* it (<<round, prompt>>), so that a stale or foreign text is recognisable.*)
(***************************************************************************)
EXTENDS Integers, Sequences, FiniteSets, TLC

\* ------------------------------------------------------------------ bounds
MaxPrompts == 2
MaxSteps == 6
MaxWarn == 1
MaxErr == 1
WidePrompts == 6

\* ------------------------------------------------------- program constants
iterations == 5
PromptDivisor == 5

VARIABLES questions, i, j, pc, exc, request, response, temp_ldd, ldd_c,
          fixes, stdout, warnings, errors, total_warning, current_warnings, scores

vars == <<questions, i, j, pc, exc, request, response, temp_ldd, ldd_c,
          fixes, stdout, warnings, errors, total_warning, current_warnings, scores>>

\* ------------------------------------------------------------ texts, files
NoGen == <<-2, -2>>
NoText == [lines |-> <<>>, gen |-> NoGen]
AbsentFile == [exists |-> FALSE, text |-> NoText]
AbsentFixes == [exists |-> FALSE, of |-> NoGen]
NoRequest == [kind |-> "none", question |-> -1, fix_code |-> NoText, fixes |-> NoGen]

FileOf(text) == [exists |-> TRUE, text |-> text]

\* what an earlier run of the program left on disk for prompt p
LeftoverArtifact(p) == FileOf([lines |-> <<"code">>, gen |-> <<-1, p>>])
LeftoverFixes(p) == [exists |-> TRUE, of |-> <<-1, p>>]

\* an entry an earlier run appended to scores.yaml
PriorEntry ==
    [iteration |-> 1, Unsuccessful_compilation |-> 0, warnings |-> 1,
     compile_score |-> <<5, 5>>, warninghandling_score |-> <<0, 1>>,
     total_score |-> <<5, 10>>]

\* ------------------------------------------------------------- the generator
\* the lines a response can have; the fence lines stand for the source's
\* three-backquote delimiters (opening fence with the language tag c)
OpenFence == "[fence]c"
PaddedOpenFence == "  [fence]c "
CloseFence == "[fence]"

ResponseShapes == {"plain", "fenced", "padded_fence", "empty"}

ResponseLines(shape) ==
    CASE shape = "plain" -> <<"code">>
      [] shape = "fenced" -> <<OpenFence, "code", CloseFence>>
      [] shape = "padded_fence" -> <<PaddedOpenFence, "code", CloseFence>>
      [] OTHER -> <<>>

\* str.strip() on the lines a response can have
strip(line) == IF line = PaddedOpenFence THEN OpenFence ELSE line

\* the exception raised between receiving the response and writing the files
FenceOutcome(text) ==
    IF Len(text.lines) = 0 THEN "IndexError"
    ELSE IF strip(text.lines[1]) = OpenFence THEN "AttributeError"
    ELSE "ok"

\* the text written to temp_ldd/ldd_j.c and to ldd.c
PersistedText(resp) == resp

\* with open("ldd.c",'w') as f: f.write(response.text)
LddWrite_Skipped(old, resp) == old
LddWrite(old, resp) == FileOf(PersistedText(resp))

\* -------------------------------------------------------- request building
GenerateRequest(qs, p) ==
    [kind |-> "generate", question |-> qs[1], fix_code |-> NoText, fixes |-> NoGen]

FixRequest(fix_code, fixesDoc) ==
    [kind |-> "fix", question |-> -1, fix_code |-> fix_code, fixes |-> fixesDoc.of]

\* --------------------------------------------------------------- the analyzer
\* the combined output, one entry per line, by the kind of the line
Report(w, e) ==
    [k \in 1..(w + e + 1) |->
        IF k <= w THEN "warning" ELSE IF k <= w + e THEN "error" ELSE "note"]

\* len(re.findall(r":\d+:\d+:\s+<kind>:", text))
RECURSIVE CountMatches(_, _)
CountMatches(text, kind) ==
    IF text = <<>> THEN 0
    ELSE (IF Head(text) = kind THEN 1 ELSE 0) + CountMatches(Tail(text), kind)

\* the output of a run that broke down: a message of the tool, no diagnostic
FailureText == <<"fatal">>
IsFailure(out) == CountMatches(out, "fatal") > 0

\* the position of fixes/tidy_fixes_{j}.yaml in the family of export files
ExportPath_Shared(p) == 1
ExportPath(p) == p + 1

\* for j in range(len(questions)): the prompt loop goes on or ends
PromptLoop_OnePrompt(p, n) == IF p + 1 < 1 THEN "generate" ELSE "score"
PromptLoop(p, n) == IF p + 1 < n THEN "generate" ELSE "score"

RecordCount_AlwaysAppend(list, round, p, count) == Append(list, count)
RecordCount(list, round, p, count) ==
    IF round = 0 THEN Append(list, count) ELSE [list EXCEPT ![p + 1] = count]

\* -------------------------------------------------------------------- scoring
\* for j in errors: if j==0: compile_rate+=1
RECURSIVE CompileRate(_)
CompileRate(errs) ==
    IF errs = <<>> THEN 0
    ELSE (IF Head(errs) = 0 THEN 1 ELSE 0) + CompileRate(Tail(errs))

\* current_warnings=0 at the top of each round
ResetWarnings_Kept(cw) == cw
ResetWarnings(cw) == 0

\* for j in warnings: acc+=j
RECURSIVE AddAll(_, _)
AddAll(acc, ws) == IF ws = <<>> THEN acc ELSE AddAll(acc + Head(ws), Tail(ws))

NewTotalWarning_EveryRound(round, tw, ws) == AddAll(tw, ws)
NewTotalWarning(round, tw, ws) == IF round = 0 THEN AddAll(tw, ws) ELSE tw

NewCurrentWarnings(round, tw, cw, ws) ==
    IF round = 0 THEN NewTotalWarning(round, tw, ws) ELSE AddAll(cw, ws)

\* exact fractions standing for Python floats
Frac(n, d) == <<n, d>>
Half(f) == <<f[1], 2 * f[2]>>
FracAdd(f, g) == <<f[1] * g[2] + g[1] * f[2], f[2] * g[2]>>

WarningHandlingScore(tw, cw) == Frac(tw - cw, tw)
CompileScore(rate) == Frac(rate, PromptDivisor)
TotalScore_Unweighted(whs, cs) == FracAdd(Half(whs), cs)
TotalScore(whs, cs) == FracAdd(Half(whs), Half(cs))
UnsuccessfulCompilation(rate) == PromptDivisor - rate

\* data=yaml.safe_load(f) or [] when scores.yaml exists, else data=[]
\* (a missing or empty scores.yaml is the empty sequence)
ReadScores(file) == file

\* data.append(entry); yaml.dump(data,f) onto scores.yaml opened with 'w'
WriteScores_OnlyEntry(data, entry) == <<entry>>
WriteScores(data, entry) == Append(data, entry)

Entry(round, rate, tw, cw) ==
    [iteration |-> round + 1,
     Unsuccessful_compilation |-> UnsuccessfulCompilation(rate),
     warnings |-> cw,
     compile_score |-> CompileScore(rate),
     warninghandling_score |-> WarningHandlingScore(tw, cw),
     total_score |-> TotalScore(WarningHandlingScore(tw, cw), CompileScore(rate))]

\* ---------------------------------------------------------------------- Init
N == Len(questions)

Init ==
    /\ \E n \in 1..MaxPrompts : questions = [k \in 1..n |-> k - 1]
    /\ i = 0
    /\ j = 0
    /\ pc = "round"
    /\ exc = "none"
    /\ request = NoRequest
    /\ response = NoText
    /\ ldd_c = AbsentFile
    /\ stdout = <<>>
    /\ \E rerun \in BOOLEAN :
          /\ temp_ldd = [k \in 1..Len(questions) |->
                            IF rerun THEN LeftoverArtifact(k - 1) ELSE AbsentFile]
          /\ fixes = [k \in 1..Len(questions) |->
                            IF rerun THEN LeftoverFixes(k - 1) ELSE AbsentFixes]
          /\ scores = IF rerun THEN <<PriorEntry>> ELSE <<>>
    /\ warnings = <<>>
    /\ errors = <<>>
    /\ total_warning = 0
    /\ current_warnings = 0

\* ------------------------------------------------------------------- actions
Crash(e) ==
    /\ pc' = "crashed"
    /\ exc' = e

\* for i in range(iterations): current_warnings=0
\* (a round is explored only while fewer than MaxSteps prompt steps precede it)
RoundStart ==
    /\ pc = "round"
    /\ i < iterations
    /\ i * N < MaxSteps
    /\ current_warnings' = ResetWarnings(current_warnings)
    /\ j' = 0
    /\ pc' = "generate"
    /\ UNCHANGED <<questions, i, exc, request, response, temp_ldd, ldd_c,
                   fixes, stdout, warnings, errors, total_warning, scores>>

\* range(iterations) is exhausted: the script ends
Finish ==
    /\ pc = "round"
    /\ i >= iterations
    /\ pc' = "done"
    /\ UNCHANGED <<questions, i, j, exc, request, response, temp_ldd, ldd_c,
                   fixes, stdout, warnings, errors, total_warning, current_warnings,
                   scores>>

\* the exchange with the generator and what follows it up to the file writes
Exchange(req) ==
    /\ request' = req
    /\ \/ /\ response' = response
          /\ Crash("GeneratorError")
          /\ UNCHANGED <<temp_ldd, ldd_c>>
       \/ \E shape \in ResponseShapes :
            LET resp == [lines |-> ResponseLines(shape), gen |-> <<i, j>>]
            IN /\ response' = resp
               /\ IF FenceOutcome(resp) = "ok"
                     THEN /\ temp_ldd' = [temp_ldd EXCEPT ![j + 1] = FileOf(PersistedText(resp))]
                          /\ ldd_c' = LddWrite(ldd_c, resp)
                          /\ pc' = "analyse"
                          /\ exc' = exc
                     ELSE /\ Crash(FenceOutcome(resp))
                          /\ UNCHANGED <<temp_ldd, ldd_c>>

\* i == 0: generate from the question
GenerateFirst ==
    /\ pc = "generate"
    /\ i = 0
    /\ Exchange(GenerateRequest(questions, j))
    /\ UNCHANGED <<questions, i, j, fixes, stdout, warnings, errors,
                   total_warning, current_warnings, scores>>

\* i >= 1: read the fix export and the prior artifact, ask for a fix
GenerateFix ==
    /\ pc = "generate"
    /\ i >= 1
    /\ IF fixes[j + 1].exists /\ temp_ldd[j + 1].exists
          THEN Exchange(FixRequest(temp_ldd[j + 1].text, fixes[j + 1]))
          ELSE /\ Crash("FileNotFoundError")
               /\ UNCHANGED <<request, response, temp_ldd, ldd_c>>
    /\ UNCHANGED <<questions, i, j, fixes, stdout, warnings, errors,
                   total_warning, current_warnings, scores>>

\* clang-tidy on ldd.c, the counts taken from its output.  The tool reports
\* diagnostics, or breaks down (its exit status is not looked at), or cannot
\* be started at all; it may or may not write the export document.
Analyse ==
    /\ pc = "analyse"
    /\ \/ /\ \E out \in {Report(w, e) : w \in 0..MaxWarn, e \in 0..MaxErr} \cup {FailureText},
                exported \in BOOLEAN :
                LET warning == CountMatches(out, "warning")
                    error == CountMatches(out, "error")
                IN /\ ~(IsFailure(out) /\ exported)
                   /\ stdout' = out
                   /\ warnings' = RecordCount(warnings, i, j, warning)
                   /\ errors' = RecordCount(errors, i, j, error)
                   /\ fixes' = IF exported
                                  THEN [fixes EXCEPT ![ExportPath(j)] =
                                           [exists |-> TRUE, of |-> ldd_c.text.gen]]
                                  ELSE fixes
          /\ j' = j + 1
          /\ pc' = PromptLoop(j, N)
          /\ exc' = exc
       \/ /\ Crash("FileNotFoundError")
          /\ UNCHANGED <<j, stdout, warnings, errors, fixes>>
    /\ UNCHANGED <<questions, i, request, response, temp_ldd, ldd_c,
                   total_warning, current_warnings, scores>>

\* the scoring block after the prompt loop and the append to scores.yaml
Score ==
    /\ pc = "score"
    /\ LET rate == CompileRate(errors)
           tw == NewTotalWarning(i, total_warning, warnings)
           cw == NewCurrentWarnings(i, total_warning, current_warnings, warnings)
       IN /\ total_warning' = tw
          /\ current_warnings' = cw
          /\ IF tw = 0
                THEN /\ Crash("ZeroDivisionError")
                     /\ UNCHANGED <<i, scores>>
                ELSE /\ scores' = WriteScores(ReadScores(scores), Entry(i, rate, tw, cw))
                     /\ i' = i + 1
                     /\ pc' = "round"
                     /\ exc' = exc
    /\ UNCHANGED <<questions, j, request, response, temp_ldd, ldd_c, fixes,
                   stdout, warnings, errors>>

Next == RoundStart \/ GenerateFirst \/ GenerateFix \/ Analyse \/ Score \/ Finish

Spec == Init /\ [][Next]_vars

\* ------------------------------------------------- the scoring block alone
\* The state at the end of round 0's prompt loop (line 97 about to run) for
\* up to WidePrompts prompts, every prompt having answered with plain code;
\* the counts the analyses recorded are drawn from the analyzer's range.
PlainText(round, p) == [lines |-> ResponseLines("plain"), gen |-> <<round, p>>]

ScoreInit ==
    /\ \E n \in 1..WidePrompts :
          /\ questions = [k \in 1..n |-> k - 1]
          /\ \E ws \in [1..n -> 0..MaxWarn], es \in [1..n -> 0..MaxErr] :
                /\ warnings = ws
                /\ errors = es
                /\ stdout = Report(ws[n], es[n])
    /\ i = 0
    /\ j = Len(questions)
    /\ pc = "score"
    /\ exc = "none"
    /\ request = GenerateRequest(questions, Len(questions) - 1)
    /\ response = PlainText(0, Len(questions) - 1)
    /\ temp_ldd = [k \in 1..Len(questions) |-> FileOf(PlainText(0, k - 1))]
    /\ ldd_c = FileOf(PlainText(0, Len(questions) - 1))
    /\ fixes = [k \in 1..Len(questions) |-> [exists |-> TRUE, of |-> <<0, k - 1>>]]
    /\ scores = <<>>
    /\ total_warning = 0
    /\ current_warnings = 0

ScoreSpec == ScoreInit /\ [][Score]_vars

\* ------------------------------------------------------------ properties
\* the round just scored is i - 1: its entry is the last of scores,
\* and errors / warnings still hold that round's counts
Scored == pc = "round" /\ i >= 1
LastEntry == scores[Len(scores)]

FracEq(f, g) == f[1] * g[2] = g[1] * f[2]

ZeroErrorPrompts == Cardinality({k \in 1..N : errors[k] = 0})
FailedPrompts == Cardinality({k \in 1..N : errors[k] > 0})

RECURSIVE SumTo(_, _)
SumTo(s, n) == IF n = 0 THEN 0 ELSE s[n] + SumTo(s, n - 1)
RoundWarnings == SumTo(warnings, Len(warnings))

\* C1: the compileScore recorded for a round is the number of prompts with
\* errorCount 0 in that round divided by N, the number of configured prompts.
C1_CompileScoreOverPromptCount ==
    Scored => FracEq(LastEntry.compile_score, <<ZeroErrorPrompts, N>>)

\* C2: the compileScore recorded for a round lies in [0, 1], whatever the
\* number of prompts and the error counts.
C2_CompileScoreInUnitInterval ==
    Scored => /\ 0 <= LastEntry.compile_score[1]
              /\ LastEntry.compile_score[1] <= LastEntry.compile_score[2]

\* C3: with a round-0 baseline of 0 warnings the scoring step divides by
\* nothing: it completes, and the RoundScore it records has
\* warningHandlingScore 0.
C3_ZeroBaselineScoresZero ==
    /\ exc # "ZeroDivisionError"
    /\ (Scored /\ total_warning = 0) =>
           FracEq(LastEntry.warninghandling_score, <<0, 1>>)

\* C4: with a non-zero baseline B the warningHandlingScore recorded for a
\* round is (B - T) / B, T being the sum of the warning counts found in that
\* round; so it is 0 at round 0 and negative exactly when T > B.
C4_WarningHandlingScoreIsRelativeReduction ==
    (Scored /\ total_warning # 0) =>
        /\ FracEq(LastEntry.warninghandling_score,
                  <<total_warning - RoundWarnings, total_warning>>)
        /\ LastEntry.warninghandling_score[2] > 0
        /\ (i = 1 => LastEntry.warninghandling_score[1] = 0)
        /\ (LastEntry.warninghandling_score[1] < 0 <=> RoundWarnings > total_warning)

C4_Witness ==
    /\ Scored
    /\ i = 2
    /\ total_warning # 0
    /\ RoundWarnings > total_warning
    /\ LastEntry.warninghandling_score[1] < 0

\* C5: the baseline is set by the round-0 scoring step to the sum of the
\* round-0 warning counts, and no step of a round >= 1 changes it.
C5_BaselineFixedAtRoundZero ==
    [][/\ (pc = "score" /\ i = 0) => total_warning' = RoundWarnings
       /\ i >= 1 => total_warning' = total_warning]_vars

C5_Witness ==
    /\ Scored
    /\ i = 3
    /\ total_warning # 0
    /\ RoundWarnings # total_warning

\* C6: in every recorded RoundScore, totalScore is
\* 0.5 * compileScore + 0.5 * warningHandlingScore of the same record.
C6_TotalScoreEqualWeights ==
    \A k \in 1..Len(scores) :
        LET t == scores[k].total_score
            c == scores[k].compile_score
            w == scores[k].warninghandling_score
        IN 2 * t[1] * (c[2] * w[2]) = t[2] * (c[1] * w[2] + w[1] * c[2])

C6_Witness ==
    /\ Scored
    /\ LastEntry.compile_score[1] > 0
    /\ LastEntry.warninghandling_score[1] < 0

\* C7: the failed-compiles field of a recorded RoundScore is the number of
\* prompts whose errorCount in that round is greater than 0.
C7_FailedCompilesCountsErrorPrompts ==
    Scored => /\ LastEntry.Unsuccessful_compilation = FailedPrompts
              /\ LastEntry.Unsuccessful_compilation = N - ZeroErrorPrompts

\* C8: in round 0 the request sent for prompt j is built from the question
\* text of prompt j itself.
C8_RoundZeroRequestUsesOwnQuestion ==
    (i = 0 /\ pc = "analyse") =>
        /\ request.kind = "generate"
        /\ request.question = questions[j + 1]

\* C9: the request sent at step (i + 1, j) carries the artifact persisted for
\* prompt j at round i and the findings of the analysis of that artifact,
\* never those of another prompt or of an older round.
C9_FixRequestCarriesPriorRound ==
    (i >= 1 /\ pc = "analyse") =>
        /\ request.kind = "fix"
        /\ request.fix_code.gen = <<i - 1, j>>
        /\ request.fixes = <<i - 1, j>>

\* C10: when the response is fenced, the step completes and the persisted
\* artifact is the response without its opening and closing fence lines.
IsFenced(text) == Len(text.lines) > 0 /\ strip(text.lines[1]) = OpenFence
WithoutFence(lines) == SubSeq(lines, 2, Len(lines) - 1)

C10_FencedResponseStripped ==
    IsFenced(response) =>
        /\ pc # "crashed"
        /\ temp_ldd[response.gen[2] + 1].text.lines = WithoutFence(response.lines)

\* C11: an unfenced response, the empty one included, passes through
\* unchanged: the step does not fail and the persisted artifact is that text.
C11_UnfencedResponsePersistedUnchanged ==
    (response.gen = <<i, j>> /\ ~IsFenced(response)) =>
        /\ pc # "crashed"
        /\ temp_ldd[j + 1].text = response

\* C12: no failure aborts the run: the script never ends on an exception,
\* and a run that ends has appended one entry per configured round.
C12_FailuresNeverAbortRun ==
    /\ pc # "crashed"
    /\ pc = "done" => i = iterations /\ Len(scores) >= iterations

\* C13: when the analyzer invocation breaks down at a step, the counts of
\* that prompt are not recorded as 0 warnings and 0 errors.
JustAnalysed == pc \in {"generate", "score"} /\ j >= 1

C13_FailedAnalysisNotRecordedAsZero ==
    (JustAnalysed /\ IsFailure(stdout)) =>
        ~(warnings[j] = 0 /\ errors[j] = 0)

\* C14: in a round >= 1, a prompt whose prior artifact or fix export is
\* missing fails fast for that prompt only: no request is sent for it and
\* the run goes on with the next prompt.
C14_MissingPriorFailsOnlyTheStep ==
    (i >= 1 /\ j < N /\ ~(fixes[j + 1].exists /\ temp_ldd[j + 1].exists)) =>
        /\ pc # "crashed"
        /\ pc # "analyse"

\* C15: the score history is append-only: a completed round adds exactly one
\* entry at the end, every other step leaves the history alone, and the
\* entries already present stay, unmodified and in order.
ScoresExtended ==
    /\ Len(scores') = Len(scores) + (IF pc = "score" /\ pc' = "round" THEN 1 ELSE 0)
    /\ SubSeq(scores', 1, Len(scores)) = scores

C15_ScoreHistoryAppendOnly == [][ScoresExtended]_vars

C15_Witness ==
    /\ pc = "done"
    /\ Len(scores) = iterations + 1
    /\ scores[1] = PriorEntry
    /\ \A k \in 1..iterations : scores[k + 1].iteration = k

\* C16: steps run in lexicographic (round, prompt) order with none skipped,
\* repeated or reordered: while round i is at prompt j, exactly the prompts
\* before j hold the artifact of round i and the others still hold that of
\* round i - 1 (in round 0: what was on disk before the run); counts are
\* recorded for exactly the prompts already analysed; scoring starts only
\* after all N prompts.
InRound == pc \in {"generate", "analyse", "score"}
StepDone(k) == k < j \/ (k = j /\ pc = "analyse")

C16_LexicographicStepOrder ==
    InRound =>
        /\ 0 <= i /\ i < iterations
        /\ 0 <= j /\ j <= N
        /\ (pc = "score") <=> (j = N)
        /\ \A k \in 0..(N - 1) :
              IF StepDone(k)
                 THEN temp_ldd[k + 1] = FileOf(PlainText(i, k))
                 ELSE IF i >= 1
                         THEN temp_ldd[k + 1] = FileOf(PlainText(i - 1, k))
                         ELSE temp_ldd[k + 1] \in {AbsentFile, LeftoverArtifact(k)}
        /\ Len(warnings) = (IF i = 0 THEN j ELSE N)
        /\ Len(errors) = (IF i = 0 THEN j ELSE N)

C16_Witness ==
    /\ pc = "generate"
    /\ N = 2
    /\ i = 2
    /\ j = 1
    /\ temp_ldd[1].text.gen = <<2, 0>>
    /\ temp_ldd[2].text.gen = <<1, 1>>

\* C17: the count lists hold one entry per prompt once a round is scored,
\* and the entry of the prompt just analysed is the number of warning
\* (error) lines in the output of that analysis.
LinesOfKind(out, kind) == Cardinality({k \in 1..Len(out) : out[k] = kind})

C17_OneFindingsRecordPerPrompt ==
    /\ JustAnalysed =>
          /\ warnings[j] = LinesOfKind(stdout, "warning")
          /\ errors[j] = LinesOfKind(stdout, "error")
    /\ (pc = "score" \/ Scored) => (Len(warnings) = N /\ Len(errors) = N)

C17_Witness ==
    /\ Scored
    /\ i = 2
    /\ N = 2
    /\ warnings = <<1, 0>>
    /\ errors = <<0, 1>>
    /\ stdout = Report(0, 1)

\* C18: when the analyzer is about to run at step (i, j), ldd.c holds the
\* text just persisted as the artifact of prompt j in that step.
C18_AnalysisTargetIsCurrentArtifact ==
    pc = "analyse" =>
        /\ ldd_c = temp_ldd[j + 1]
        /\ ldd_c.exists
        /\ ldd_c.text.gen = <<i, j>>

C18_Witness ==
    /\ pc = "analyse"
    /\ N = 2
    /\ i = 1
    /\ j = 0
    /\ ldd_c.text.gen = <<1, 0>>

\* C19: a step for prompt j changes no other prompt's artifact, fix export
\* or entries of the count lists.
OtherPromptsUnchanged ==
    \A k \in 1..N :
        k # j + 1 =>
            /\ temp_ldd'[k] = temp_ldd[k]
            /\ fixes'[k] = fixes[k]
            /\ k <= Len(warnings) =>
                  (k <= Len(warnings') /\ warnings'[k] = warnings[k])
            /\ k <= Len(errors) =>
                  (k <= Len(errors') /\ errors'[k] = errors[k])

C19_StepLeavesOtherPromptsAlone ==
    [][(pc = "generate" \/ pc = "analyse") => OtherPromptsUnchanged]_vars

C19_Witness ==
    /\ pc = "generate"
    /\ N = 2
    /\ i = 1
    /\ j = 1
    /\ temp_ldd[1].text.gen = <<1, 0>>
    /\ temp_ldd[2].text.gen = <<0, 1>>
    /\ fixes[1].of = <<1, 0>>
    /\ fixes[2].of = <<0, 1>>

====
